---- MODULE Spec2Model ----
(***************************************************************************)
(* Autonomous-vehicle micropayments: the delivery escrow program of        *)
(* src/lib1.rs (an Anchor program) as a state machine.                     *)
(*                                                                         *)
(* State: the program's accounts (Config, Vehicle, Delivery) and the       *)
(* lamport balance of every account that takes part in a payment.  One     *)
(* action per instruction.  An instruction is the accounts validation of   *)
(* its #[derive(Accounts)] struct followed by its handler; an instruction  *)
(* that returns an error leaves no effect.                                 *)
(*                                                                         *)
(* Balances are counted net of the rent-exempt reserve of an account.      *)
(***************************************************************************)
EXTENDS Integers, Sequences, FiniteSets, TLC

----------------------------------------------------------------------------
(* u64 arithmetic.  A u64 is the sequence of its base-10^4 digits, least   *)
(* significant first, without leading zeros: 0 is <<>>, 1_000_000_000 is   *)
(* <<0, 0, 10>>.  TLC's own integers are 32 bits wide, too narrow for the  *)
(* amounts and for the products the fee computation forms.                 *)

LimbBase == 10^4

U64_MAX == <<1615, 955, 737, 6744, 1844>>      \* 18446744073709551615

RECURSIVE Norm(_)
Norm(s) ==
    IF s = <<>> THEN <<>>
    ELSE IF s[Len(s)] = 0 THEN Norm(SubSeq(s, 1, Len(s) - 1))
    ELSE s

Limb(a, i) == IF i <= Len(a) THEN a[i] ELSE 0

\* `n as u64` for a narrower unsigned n.
RECURSIVE as_u64(_)
as_u64(n) == IF n = 0 THEN <<>> ELSE <<n % LimbBase>> \o as_u64(n \div LimbBase)

RECURSIVE LessFrom(_, _, _)
LessFrom(a, b, i) ==
    IF i = 0 THEN FALSE
    ELSE IF a[i] # b[i] THEN a[i] < b[i]
    ELSE LessFrom(a, b, i - 1)

Less(a, b) == IF Len(a) # Len(b) THEN Len(a) < Len(b) ELSE LessFrom(a, b, Len(a))

Leq(a, b) == ~Less(b, a)

RECURSIVE AddFrom(_, _, _, _)
AddFrom(a, b, i, carry) ==
    IF i > Len(a) /\ i > Len(b)
    THEN IF carry = 0 THEN <<>> ELSE <<carry>>
    ELSE LET s == Limb(a, i) + Limb(b, i) + carry
         IN  <<s % LimbBase>> \o AddFrom(a, b, i + 1, s \div LimbBase)

\* a + b in unbounded precision.
WideAdd(a, b) == AddFrom(a, b, 1, 0)

RECURSIVE SubFrom(_, _, _, _)
SubFrom(a, b, i, borrow) ==
    IF i > Len(a) THEN <<>>
    ELSE LET d == a[i] - Limb(b, i) - borrow
         IN  IF d < 0 THEN <<d + LimbBase>> \o SubFrom(a, b, i + 1, 1)
             ELSE <<d>> \o SubFrom(a, b, i + 1, 0)

\* a - b, for b <= a.
WideSub(a, b) == Norm(SubFrom(a, b, 1, 0))

RECURSIVE MulFrom(_, _, _, _)
MulFrom(a, m, i, carry) ==
    IF i > Len(a) THEN as_u64(carry)
    ELSE LET p == a[i] * m + carry
         IN  <<p % LimbBase>> \o MulFrom(a, m, i + 1, p \div LimbBase)

\* a * b in unbounded precision (schoolbook, one digit of b at a time).
RECURSIVE WideMul(_, _)
WideMul(a, b) ==
    IF b = <<>> THEN <<>>
    ELSE LET rest == WideMul(a, Tail(b))
         IN  WideAdd(Norm(MulFrom(a, b[1], 1, 0)),
                     IF rest = <<>> THEN <<>> ELSE <<0>> \o rest)

RECURSIVE DivFrom(_, _, _, _)
DivFrom(a, d, i, rem) ==
    IF i = 0 THEN <<>>
    ELSE LET cur == rem * LimbBase + a[i]
         IN  DivFrom(a, d, i - 1, cur % d) \o <<cur \div d>>

\* Option<u64>
NoneU64 == [some |-> FALSE, val |-> <<>>]
SomeU64(x) == [some |-> TRUE, val |-> x]

checked_mul(a, b) ==
    LET p == WideMul(a, b) IN IF Leq(p, U64_MAX) THEN SomeU64(p) ELSE NoneU64

\* The divisor is a small literal in every use.
checked_div(a, d) ==
    IF d = 0 THEN NoneU64 ELSE SomeU64(Norm(DivFrom(a, d, Len(a), 0)))

checked_sub(a, b) == IF Less(a, b) THEN NoneU64 ELSE SomeU64(WideSub(a, b))

checked_add(a, b) ==
    LET s == WideAdd(a, b) IN IF Leq(s, U64_MAX) THEN SomeU64(s) ELSE NoneU64

----------------------------------------------------------------------------
(* The environment: who calls, and with what.                              *)

MaxVehicles == 2

Customers   == {"alice", "bob"}
Operators   == {"oscar"}                   \* operator wallets of vehicles
Signers     == {"oscar", "mallory"}        \* signers of accept_delivery
Wallets     == {"admin", "treasury", "oscar", "mallory"} \cup Customers

\* initialize_config as called: <<authority, fee_bps, treasury>>.
ConfigInputs ==
    {<<"admin", 250, "treasury">>, <<"admin", 10001, "treasury">>,
     <<"mallory", 10000, "mallory">>}
Authorities == {c[1] : c \in ConfigInputs}
Treasuries  == {c[3] : c \in ConfigInputs}

DeliveryIds == {1}                         \* delivery_id: u64
Amounts     == {as_u64(0), as_u64(1000000000), U64_MAX}
Times       == {1700000000}                \* Clock::get()?.unix_timestamp

VehicleId(i)  == "AV-00" \o ToString(i)
LongVehicleId == "AV-000000000000000000000000000033"
VehicleIds    == {VehicleId(i) : i \in 1..MaxVehicles}
Location      == "40.7128,-74.0060"
LongLocation  == "40.712800000000000000000000000000,-74.006000000000000000000000000"
Locations     == {Location, LongLocation}

\* Program-derived addresses: the seeds, joined.  Distinct seeds give
\* distinct addresses.
ConfigPda(authority)   == "config/" \o authority
VehiclePda(vehicle_id) == "vehicle/" \o vehicle_id
DeliveryPda(customer, delivery_id) ==
    "delivery/" \o customer \o "/" \o ToString(delivery_id)
EscrowPda(customer, delivery_id) ==
    "escrow/" \o customer \o "/" \o ToString(delivery_id)

ConfigAddrs   == {ConfigPda(a) : a \in Authorities}
VehicleAddrs  == {VehiclePda(v) : v \in VehicleIds}
DeliveryAddrs == {DeliveryPda(c, i) : c \in Customers, i \in DeliveryIds}
EscrowAddrs   == {EscrowPda(c, i) : c \in Customers, i \in DeliveryIds}

\* A customer can pay for an order of 1_000_000_000 twice over.
InitialLamports(wallet) ==
    IF wallet \in Customers THEN as_u64(2000000000) ELSE as_u64(0)

\* Option<Pubkey>, Option<i64>
NonePubkey == [some |-> FALSE, val |-> ""]
SomePubkey(k) == [some |-> TRUE, val |-> k]
NoneI64 == [some |-> FALSE, val |-> 0]
SomeI64(t) == [some |-> TRUE, val |-> t]

Pending    == "Pending"
InProgress == "InProgress"
Completed  == "Completed"
Cancelled  == "Cancelled"
DeliveryStatus == {Pending, InProgress, Completed, Cancelled}

Put(f, k, v) == [a \in DOMAIN f \cup {k} |-> IF a = k THEN v ELSE f[a]]

----------------------------------------------------------------------------
VARIABLES
    config,     \* Config accounts, by address
    vehicle,    \* Vehicle accounts, by address
    delivery,   \* Delivery accounts, by address
    lamports,   \* balance of every wallet and every initialized escrow
    last        \* the last instruction and its result

vars == <<config, vehicle, delivery, lamports, last>>

World ==
    [config |-> config, vehicle |-> vehicle, delivery |-> delivery,
     lamports |-> lamports]

Ok(w) == [err |-> "Ok", w |-> w]
Err(e, w) == [err |-> e, w |-> w]

Execute_keeps_partial_writes(w, r) == r.w

\* An instruction that returns an error is rolled back as a whole.
Execute(w, r) == IF r.err = "Ok" THEN r.w ELSE w

Apply(op, r) ==
    LET w2 == Execute(World, r)
    IN  /\ config' = w2.config
        /\ vehicle' = w2.vehicle
        /\ delivery' = w2.delivery
        /\ lamports' = w2.lamports
        /\ last' = [op |-> op, err |-> r.err]

Init ==
    /\ config = << >>
    /\ vehicle = << >>
    /\ delivery = << >>
    /\ lamports = [a \in Wallets |-> InitialLamports(a)]
    /\ last = [op |-> "none", err |-> "Ok"]

----------------------------------------------------------------------------
(* initialize_config                                                       *)

InitializeConfigAccounts(w, authority) ==
    IF ConfigPda(authority) \in DOMAIN w.config THEN "AlreadyInitialized"
    ELSE "Ok"

initialize_config(w, authority, fee_bps, treasury) ==
    Ok([w EXCEPT !.config = Put(@, ConfigPda(authority),
            [authority |-> authority,
             is_active |-> TRUE,
             is_paused |-> FALSE,
             fee_bps   |-> fee_bps,
             treasury  |-> treasury,
             version   |-> 1])])

InitializeConfigIx(w, authority, fee_bps, treasury) ==
    LET e == InitializeConfigAccounts(w, authority)
    IN  IF e # "Ok" THEN Err(e, w)
        ELSE initialize_config(w, authority, fee_bps, treasury)

InitializeConfig ==
    \E c \in ConfigInputs :
        /\ Apply("initialize_config", InitializeConfigIx(World, c[1], c[2], c[3]))

----------------------------------------------------------------------------
(* register_vehicle                                                        *)

\* The config passed must be the signer's own: seeds = [b"config", authority].
RegisterVehicleAccounts(w, authority, cfg, vehicle_id) ==
    IF cfg \notin DOMAIN w.config THEN "AccountNotInitialized"
    ELSE IF VehiclePda(vehicle_id) \in DOMAIN w.vehicle THEN "AlreadyInitialized"
    ELSE IF cfg # ConfigPda(authority) THEN "ConstraintSeeds"
    ELSE "Ok"

register_vehicle(w, cfg, vehicle_id, operator, location, now) ==
    IF ~(Len(vehicle_id) <= 32) THEN Err("InvalidParameter", w)
    ELSE IF ~(Len(location) <= 64) THEN Err("InvalidParameter", w)
    ELSE IF ~(w.config[cfg].is_active /\ ~w.config[cfg].is_paused)
         THEN Err("ConfigInactive", w)
    ELSE Ok([w EXCEPT !.vehicle = Put(@, VehiclePda(vehicle_id),
            [vehicle_id       |-> vehicle_id,
             operator         |-> operator,
             location         |-> location,
             is_active        |-> TRUE,
             is_busy          |-> FALSE,
             total_deliveries |-> as_u64(0),
             registered_at    |-> now])])

RegisterVehicleIx(w, authority, cfg, vehicle_id, operator, location, now) ==
    LET e == RegisterVehicleAccounts(w, authority, cfg, vehicle_id)
    IN  IF e # "Ok" THEN Err(e, w)
        ELSE register_vehicle(w, cfg, vehicle_id, operator, location, now)

RegisterVehicle ==
    \E authority \in Authorities, cfg \in ConfigAddrs,
       vehicle_id \in VehicleIds \cup {LongVehicleId},
       operator \in Operators, location \in Locations, now \in Times :
        /\ Apply("register_vehicle",
              RegisterVehicleIx(World, authority, cfg, vehicle_id, operator,
                                location, now))

----------------------------------------------------------------------------
(* create_delivery_order                                                   *)

\* delivery and escrow are the addresses derived from the signing customer
\* and delivery_id; both are created here (init), so neither may exist.
CreateDeliveryOrderAccounts_no_init(w, customer, cfg, delivery_id) ==
    IF cfg \notin DOMAIN w.config THEN "AccountNotInitialized"
    ELSE "Ok"

CreateDeliveryOrderAccounts(w, customer, cfg, delivery_id) ==
    IF cfg \notin DOMAIN w.config THEN "AccountNotInitialized"
    ELSE IF DeliveryPda(customer, delivery_id) \in DOMAIN w.delivery
         THEN "AlreadyInitialized"
    ELSE IF EscrowPda(customer, delivery_id) \in DOMAIN w.lamports
         THEN "AlreadyInitialized"
    ELSE "Ok"

\* system_program::transfer(from, to, amount); `to` is created by the same
\* instruction and starts empty.
transfer(lp, from, to, amount) ==
    IF Less(lp[from], amount) THEN Err("InsufficientFunds", lp)
    ELSE LET debited == [lp EXCEPT ![from] = WideSub(@, amount)]
         IN  Ok(Put(debited, to,
                    WideAdd(IF to \in DOMAIN debited THEN debited[to] ELSE as_u64(0),
                            amount)))

create_delivery_order_any_amount(w, customer, cfg, delivery_id, payment_amount, pickup_location, delivery_location, now) ==
    IF ~(Len(pickup_location) <= 64) THEN Err("InvalidParameter", w)
    ELSE IF ~(Len(delivery_location) <= 64) THEN Err("InvalidParameter", w)
    ELSE IF ~(w.config[cfg].is_active /\ ~w.config[cfg].is_paused)
         THEN Err("ConfigInactive", w)
    ELSE LET t == transfer(w.lamports, customer,
                           EscrowPda(customer, delivery_id), payment_amount)
         IN  IF t.err # "Ok" THEN Err(t.err, w)
             ELSE Ok([w EXCEPT
                 !.lamports = t.w,
                 !.delivery = Put(@, DeliveryPda(customer, delivery_id),
                    [delivery_id       |-> delivery_id,
                     customer          |-> customer,
                     payment_amount    |-> payment_amount,
                     pickup_location   |-> pickup_location,
                     delivery_location |-> delivery_location,
                     status            |-> Pending,
                     assigned_vehicle  |-> NonePubkey,
                     created_at        |-> now,
                     accepted_at       |-> NoneI64,
                     completed_at      |-> NoneI64])])

create_delivery_order(w, customer, cfg, delivery_id, payment_amount, pickup_location, delivery_location, now) ==
    IF ~(Len(pickup_location) <= 64) THEN Err("InvalidParameter", w)
    ELSE IF ~(Len(delivery_location) <= 64) THEN Err("InvalidParameter", w)
    ELSE IF ~Less(as_u64(0), payment_amount) THEN Err("InvalidAmount", w)
    ELSE IF ~(w.config[cfg].is_active /\ ~w.config[cfg].is_paused)
         THEN Err("ConfigInactive", w)
    ELSE LET t == transfer(w.lamports, customer,
                           EscrowPda(customer, delivery_id), payment_amount)
         IN  IF t.err # "Ok" THEN Err(t.err, w)
             ELSE Ok([w EXCEPT
                 !.lamports = t.w,
                 !.delivery = Put(@, DeliveryPda(customer, delivery_id),
                    [delivery_id       |-> delivery_id,
                     customer          |-> customer,
                     payment_amount    |-> payment_amount,
                     pickup_location   |-> pickup_location,
                     delivery_location |-> delivery_location,
                     status            |-> Pending,
                     assigned_vehicle  |-> NonePubkey,
                     created_at        |-> now,
                     accepted_at       |-> NoneI64,
                     completed_at      |-> NoneI64])])

CreateDeliveryOrderIx(w, customer, cfg, delivery_id, payment_amount, pickup_location, delivery_location, now) ==
    LET e == CreateDeliveryOrderAccounts(w, customer, cfg, delivery_id)
    IN  IF e # "Ok" THEN Err(e, w)
        ELSE create_delivery_order(w, customer, cfg, delivery_id, payment_amount,
                                   pickup_location, delivery_location, now)

CreateDeliveryOrder ==
    \E customer \in Customers, cfg \in ConfigAddrs, delivery_id \in DeliveryIds,
       payment_amount \in Amounts, pickup_location \in Locations,
       delivery_location \in Locations, now \in Times :
        /\ Apply("create_delivery_order",
              CreateDeliveryOrderIx(World, customer, cfg, delivery_id,
                                    payment_amount, pickup_location,
                                    delivery_location, now))

----------------------------------------------------------------------------
(* accept_delivery                                                         *)

\* dlv, veh and cfg are the accounts passed; operator is the signer.  The
\* only constraint that ties them to the arguments is the delivery's seeds:
\* [b"delivery", delivery.customer, delivery_id].  Nothing reads operator.
AcceptDeliveryAccounts(w, operator, dlv, veh, cfg, delivery_id) ==
    IF dlv \notin DOMAIN w.delivery THEN "AccountNotInitialized"
    ELSE IF veh \notin DOMAIN w.vehicle THEN "AccountNotInitialized"
    ELSE IF cfg \notin DOMAIN w.config THEN "AccountNotInitialized"
    ELSE IF dlv # DeliveryPda(w.delivery[dlv].customer, delivery_id)
         THEN "ConstraintSeeds"
    ELSE "Ok"

accept_delivery_any_status(w, dlv, veh, cfg, now) ==
    IF ~(w.config[cfg].is_active /\ ~w.config[cfg].is_paused)
         THEN Err("ConfigInactive", w)
    ELSE IF ~(w.vehicle[veh].is_active /\ ~w.vehicle[veh].is_busy)
         THEN Err("VehicleNotAvailable", w)
    ELSE Ok([w EXCEPT
            !.vehicle[veh].is_busy = TRUE,
            !.delivery[dlv].status = InProgress,
            !.delivery[dlv].assigned_vehicle = SomePubkey(veh),
            !.delivery[dlv].accepted_at = SomeI64(now)])

accept_delivery_unassigned(w, dlv, veh, cfg, now) ==
    IF ~(w.config[cfg].is_active /\ ~w.config[cfg].is_paused)
         THEN Err("ConfigInactive", w)
    ELSE IF ~(w.vehicle[veh].is_active /\ ~w.vehicle[veh].is_busy)
         THEN Err("VehicleNotAvailable", w)
    ELSE IF ~(w.delivery[dlv].status = Pending)
         THEN Err("InvalidDeliveryStatus", w)
    ELSE Ok([w EXCEPT
            !.vehicle[veh].is_busy = TRUE,
            !.delivery[dlv].status = InProgress,
            !.delivery[dlv].accepted_at = SomeI64(now)])

accept_delivery_busy_vehicle(w, dlv, veh, cfg, now) ==
    IF ~(w.config[cfg].is_active /\ ~w.config[cfg].is_paused)
         THEN Err("ConfigInactive", w)
    ELSE IF ~w.vehicle[veh].is_active
         THEN Err("VehicleNotAvailable", w)
    ELSE IF ~(w.delivery[dlv].status = Pending)
         THEN Err("InvalidDeliveryStatus", w)
    ELSE Ok([w EXCEPT
            !.vehicle[veh].is_busy = TRUE,
            !.delivery[dlv].status = InProgress,
            !.delivery[dlv].assigned_vehicle = SomePubkey(veh),
            !.delivery[dlv].accepted_at = SomeI64(now)])

accept_delivery(w, dlv, veh, cfg, now) ==
    IF ~(w.config[cfg].is_active /\ ~w.config[cfg].is_paused)
         THEN Err("ConfigInactive", w)
    ELSE IF ~(w.vehicle[veh].is_active /\ ~w.vehicle[veh].is_busy)
         THEN Err("VehicleNotAvailable", w)
    ELSE IF ~(w.delivery[dlv].status = Pending)
         THEN Err("InvalidDeliveryStatus", w)
    ELSE Ok([w EXCEPT
            !.vehicle[veh].is_busy = TRUE,
            !.delivery[dlv].status = InProgress,
            !.delivery[dlv].assigned_vehicle = SomePubkey(veh),
            !.delivery[dlv].accepted_at = SomeI64(now)])

AcceptDeliveryIx(w, operator, dlv, veh, cfg, delivery_id, now) ==
    LET e == AcceptDeliveryAccounts(w, operator, dlv, veh, cfg, delivery_id)
    IN  IF e # "Ok" THEN Err(e, w)
        ELSE accept_delivery(w, dlv, veh, cfg, now)

AcceptDelivery ==
    \E operator \in Signers, dlv \in DeliveryAddrs, veh \in VehicleAddrs,
       cfg \in ConfigAddrs, delivery_id \in DeliveryIds, now \in Times :
        /\ Apply("accept_delivery",
              AcceptDeliveryIx(World, operator, dlv, veh, cfg, delivery_id, now))

----------------------------------------------------------------------------
(* complete_delivery                                                       *)

\* No account of CompleteDelivery is a signer.  delivery and escrow are the
\* addresses derived from the customer account passed and delivery_id;
\* vehicle_operator and treasury are unchecked accounts, treasury held to
\* config.treasury by the constraint on config.
CompleteDeliveryAccounts_any_treasury(w, customer, veh, vehicle_operator, treasury, cfg, delivery_id) ==
    IF DeliveryPda(customer, delivery_id) \notin DOMAIN w.delivery
         THEN "AccountNotInitialized"
    ELSE IF veh \notin DOMAIN w.vehicle THEN "AccountNotInitialized"
    ELSE IF cfg \notin DOMAIN w.config THEN "AccountNotInitialized"
    ELSE "Ok"

CompleteDeliveryAccounts(w, customer, veh, vehicle_operator, treasury, cfg, delivery_id) ==
    IF DeliveryPda(customer, delivery_id) \notin DOMAIN w.delivery
         THEN "AccountNotInitialized"
    ELSE IF veh \notin DOMAIN w.vehicle THEN "AccountNotInitialized"
    ELSE IF cfg \notin DOMAIN w.config THEN "AccountNotInitialized"
    ELSE IF ~(treasury = w.config[cfg].treasury) THEN "InvalidTreasury"
    ELSE "Ok"

\* **account.try_borrow_mut_lamports()? -= amount
debit(lp, account, amount) ==
    IF Less(lp[account], amount) THEN Err("ArithmeticOverflow", lp)
    ELSE Ok([lp EXCEPT ![account] = WideSub(@, amount)])

\* **account.try_borrow_mut_lamports()? += amount
credit(lp, account, amount) ==
    LET s == checked_add(lp[account], amount)
    IN  IF ~s.some THEN Err("ArithmeticOverflow", lp)
        ELSE Ok([lp EXCEPT ![account] = s.val])

FeeSplit_per_mille(payment_amount, fee_bps) ==
    LET product == checked_mul(payment_amount, as_u64(fee_bps))
    IN  IF ~product.some THEN [err |-> "MathOverflow"]
        ELSE LET fee == checked_div(product.val, 1000)
             IN  IF ~fee.some THEN [err |-> "MathOverflow"]
                 ELSE LET vehicle_payment == checked_sub(payment_amount, fee.val)
                      IN  IF ~vehicle_payment.some THEN [err |-> "MathOverflow"]
                          ELSE [err |-> "Ok", fee |-> fee.val,
                                vehicle_payment |-> vehicle_payment.val]

FeeSplit_saturating_sub(payment_amount, fee_bps) ==
    LET product == checked_mul(payment_amount, as_u64(fee_bps))
    IN  IF ~product.some THEN [err |-> "MathOverflow"]
        ELSE LET fee == checked_div(product.val, 10000)
             IN  IF ~fee.some THEN [err |-> "MathOverflow"]
                 ELSE LET vehicle_payment == checked_sub(payment_amount, fee.val)
                      IN  [err |-> "Ok", fee |-> fee.val,
                           vehicle_payment |-> vehicle_payment.val]

\* fee and vehicle_payment of lines 138-145.
FeeSplit(payment_amount, fee_bps) ==
    LET product == checked_mul(payment_amount, as_u64(fee_bps))
    IN  IF ~product.some THEN [err |-> "MathOverflow"]
        ELSE LET fee == checked_div(product.val, 10000)
             IN  IF ~fee.some THEN [err |-> "MathOverflow"]
                 ELSE LET vehicle_payment == checked_sub(payment_amount, fee.val)
                      IN  IF ~vehicle_payment.some THEN [err |-> "MathOverflow"]
                          ELSE [err |-> "Ok", fee |-> fee.val,
                                vehicle_payment |-> vehicle_payment.val]

PayOut_operator_paid_in_full(lp, escrow, vehicle_operator, treasury, vehicle_payment, fee) ==
    LET s1 == debit(lp, escrow, vehicle_payment)
        s2 == credit(s1.w, vehicle_operator, WideAdd(vehicle_payment, fee))
        s3 == debit(s2.w, escrow, fee)
        s4 == credit(s3.w, treasury, fee)
    IN  IF s1.err # "Ok" THEN s1
        ELSE IF s2.err # "Ok" THEN s2
        ELSE IF s3.err # "Ok" THEN s3
        ELSE s4

\* The two paired movements out of the escrow, in the order of the code.
PayOut(lp, escrow, vehicle_operator, treasury, vehicle_payment, fee) ==
    LET s1 == debit(lp, escrow, vehicle_payment)
        s2 == credit(s1.w, vehicle_operator, vehicle_payment)
        s3 == debit(s2.w, escrow, fee)
        s4 == credit(s3.w, treasury, fee)
    IN  IF s1.err # "Ok" THEN s1
        ELSE IF s2.err # "Ok" THEN s2
        ELSE IF s3.err # "Ok" THEN s3
        ELSE s4

disburse_uncounted(w, dlv, escrow, veh, vehicle_operator, treasury, cfg, now) ==
    LET split == FeeSplit(w.delivery[dlv].payment_amount, w.config[cfg].fee_bps)
    IN  IF split.err # "Ok" THEN Err(split.err, w)
        ELSE
        LET paid == PayOut(w.lamports, escrow, vehicle_operator, treasury,
                           split.vehicle_payment, split.fee)
            w1 == [w EXCEPT
                     !.lamports = paid.w,
                     !.delivery[dlv].status = Completed,
                     !.delivery[dlv].completed_at = SomeI64(now),
                     !.vehicle[veh].is_busy = FALSE]
        IN  IF paid.err # "Ok" THEN Err(paid.err, w)
            ELSE Ok(w1)

\* Lines 137-174: the split, the two movements, and the closing writes.
disburse(w, dlv, escrow, veh, vehicle_operator, treasury, cfg, now) ==
    LET split == FeeSplit(w.delivery[dlv].payment_amount, w.config[cfg].fee_bps)
    IN  IF split.err # "Ok" THEN Err(split.err, w)
        ELSE
        LET paid == PayOut(w.lamports, escrow, vehicle_operator, treasury,
                           split.vehicle_payment, split.fee)
            w1 == [w EXCEPT
                     !.lamports = paid.w,
                     !.delivery[dlv].status = Completed,
                     !.delivery[dlv].completed_at = SomeI64(now),
                     !.vehicle[veh].is_busy = FALSE]
            total == checked_add(w.vehicle[veh].total_deliveries, as_u64(1))
        IN  IF paid.err # "Ok" THEN Err(paid.err, w)
            ELSE IF ~total.some THEN Err("MathOverflow", w1)
            ELSE Ok([w1 EXCEPT !.vehicle[veh].total_deliveries = total.val])

complete_delivery_any_vehicle(w, customer, veh, vehicle_operator, treasury, cfg, delivery_id, now) ==
    LET dlv == DeliveryPda(customer, delivery_id)
        escrow == EscrowPda(customer, delivery_id)
    IN
    IF ~(w.config[cfg].is_active /\ ~w.config[cfg].is_paused)
         THEN Err("ConfigInactive", w)
    ELSE IF ~(w.delivery[dlv].status = InProgress)
         THEN Err("InvalidDeliveryStatus", w)
    ELSE disburse(w, dlv, escrow, veh, vehicle_operator, treasury, cfg, now)

complete_delivery_any_status(w, customer, veh, vehicle_operator, treasury, cfg, delivery_id, now) ==
    LET dlv == DeliveryPda(customer, delivery_id)
        escrow == EscrowPda(customer, delivery_id)
    IN
    IF ~(w.config[cfg].is_active /\ ~w.config[cfg].is_paused)
         THEN Err("ConfigInactive", w)
    ELSE IF ~(w.delivery[dlv].assigned_vehicle = SomePubkey(veh))
         THEN Err("Unauthorized", w)
    ELSE disburse(w, dlv, escrow, veh, vehicle_operator, treasury, cfg, now)

complete_delivery(w, customer, veh, vehicle_operator, treasury, cfg, delivery_id, now) ==
    LET dlv == DeliveryPda(customer, delivery_id)
        escrow == EscrowPda(customer, delivery_id)
    IN
    IF ~(w.config[cfg].is_active /\ ~w.config[cfg].is_paused)
         THEN Err("ConfigInactive", w)
    ELSE IF ~(w.delivery[dlv].status = InProgress)
         THEN Err("InvalidDeliveryStatus", w)
    ELSE IF ~(w.delivery[dlv].assigned_vehicle = SomePubkey(veh))
         THEN Err("Unauthorized", w)
    ELSE disburse(w, dlv, escrow, veh, vehicle_operator, treasury, cfg, now)

CompleteDeliveryIx(w, customer, veh, vehicle_operator, treasury, cfg, delivery_id, now) ==
    LET e == CompleteDeliveryAccounts(w, customer, veh, vehicle_operator,
                                      treasury, cfg, delivery_id)
    IN  IF e # "Ok" THEN Err(e, w)
        ELSE complete_delivery(w, customer, veh, vehicle_operator, treasury, cfg,
                               delivery_id, now)

\* The accounts passed as vehicle_operator: a wallet, or an escrow.
Recipients == (Operators \cup {"mallory"}) \cup (DOMAIN lamports \ Wallets)

CompleteDelivery ==
    \E customer \in Customers, veh \in VehicleAddrs,
       vehicle_operator \in Recipients, treasury \in Treasuries,
       cfg \in ConfigAddrs, delivery_id \in DeliveryIds, now \in Times :
        /\ Apply("complete_delivery",
              CompleteDeliveryIx(World, customer, veh, vehicle_operator,
                                 treasury, cfg, delivery_id, now))

----------------------------------------------------------------------------
Next ==
    \/ InitializeConfig
    \/ RegisterVehicle
    \/ CreateDeliveryOrder
    \/ AcceptDelivery
    \/ CompleteDelivery

Spec == Init /\ [][Next]_vars

----------------------------------------------------------------------------
(* The fee computation over the amount domain: every state is one right    *)
(* after initialize_config, register_vehicle, create_delivery_order and    *)
(* accept_delivery, for a fee rate and a payment drawn from the domains    *)
(* below, the customer having started with U64_MAX lamports.               *)

FeeDomain == {0, 1, 250, 9999, 10000, 10001, 65535}

AmountDomain ==
    {as_u64(1), as_u64(39), as_u64(9999), as_u64(10000),
     as_u64(1000000000), as_u64(1999999999),
     <<955, 737, 6744, 1844>>,           \* 1844674407370955 = U64_MAX div 10000
     <<956, 737, 6744, 1844>>,           \* 1844674407370956
     <<8206, 9483, 9762, 7867, 7>>,      \* 73786976294838206 = U64_MAX div 250
     <<8207, 9483, 9762, 7867, 7>>,      \* 73786976294838207
     U64_MAX}

InProgressWorld(fee_bps, payment_amount) ==
    LET now == CHOOSE t \in Times : TRUE
        w0 == [config |-> << >>, vehicle |-> << >>, delivery |-> << >>,
               lamports |-> [a \in Wallets |->
                              IF a = "alice" THEN U64_MAX ELSE as_u64(0)]]
        w1 == InitializeConfigIx(w0, "admin", fee_bps, "treasury").w
        w2 == RegisterVehicleIx(w1, "admin", ConfigPda("admin"), VehicleId(1),
                                "oscar", Location, now).w
        w3 == CreateDeliveryOrderIx(w2, "alice", ConfigPda("admin"), 1,
                                    payment_amount, Location, Location, now).w
    IN  AcceptDeliveryIx(w3, "oscar", DeliveryPda("alice", 1),
                         VehiclePda(VehicleId(1)), ConfigPda("admin"), 1, now).w

FeeInit ==
    \E fee_bps \in FeeDomain, payment_amount \in AmountDomain :
        LET w == InProgressWorld(fee_bps, payment_amount)
        IN  /\ config = w.config
            /\ vehicle = w.vehicle
            /\ delivery = w.delivery
            /\ lamports = w.lamports
            /\ last = [op |-> "accept_delivery", err |-> "Ok"]

FeeNext == CompleteDelivery

FeeSpec == FeeInit /\ [][FeeNext]_vars

----------------------------------------------------------------------------
(* The delivery counter at its end: every state is one right after         *)
(* accept_delivery, as above, for a vehicle whose total_deliveries is      *)
(* drawn from the domain below.                                            *)

CounterDomain ==
    {as_u64(0), WideSub(U64_MAX, as_u64(1)), U64_MAX}

CounterAmounts == {as_u64(1), as_u64(1000000000), U64_MAX}

CounterWorld(fee_bps, payment_amount, total_deliveries) ==
    [InProgressWorld(fee_bps, payment_amount) EXCEPT
        !.vehicle[VehiclePda(VehicleId(1))].total_deliveries = total_deliveries]

CounterInit ==
    \E fee_bps \in FeeDomain, payment_amount \in CounterAmounts,
       total_deliveries \in CounterDomain :
        LET w == CounterWorld(fee_bps, payment_amount, total_deliveries)
        IN  /\ config = w.config
            /\ vehicle = w.vehicle
            /\ delivery = w.delivery
            /\ lamports = w.lamports
            /\ last = [op |-> "accept_delivery", err |-> "Ok"]

CounterNext == CompleteDelivery

CounterSpec == CounterInit /\ [][CounterNext]_vars

----------------------------------------------------------------------------
(* The calls that can be made in the current state on initialized          *)
(* accounts, and what each returns.                                        *)

CreateCalls ==
    [customer : Customers, cfg : DOMAIN config, delivery_id : DeliveryIds,
     payment_amount : Amounts, pickup_location : Locations,
     delivery_location : Locations, now : Times]

CreateResult(a) ==
    CreateDeliveryOrderIx(World, a.customer, a.cfg, a.delivery_id,
                          a.payment_amount, a.pickup_location,
                          a.delivery_location, a.now)

AcceptCalls ==
    [operator : Signers, dlv : DOMAIN delivery, veh : DOMAIN vehicle,
     cfg : DOMAIN config, now : Times]

AcceptResult(a) ==
    AcceptDeliveryIx(World, a.operator, a.dlv, a.veh, a.cfg,
                     delivery[a.dlv].delivery_id, a.now)

CompleteCalls ==
    {a \in [customer : Customers, delivery_id : DeliveryIds,
            veh : DOMAIN vehicle, vehicle_operator : Recipients,
            treasury : Treasuries, cfg : DOMAIN config, now : Times] :
        DeliveryPda(a.customer, a.delivery_id) \in DOMAIN delivery}

CompleteResult(a) ==
    CompleteDeliveryIx(World, a.customer, a.veh, a.vehicle_operator, a.treasury,
                       a.cfg, a.delivery_id, a.now)

DeliveryOf(a) == delivery[DeliveryPda(a.customer, a.delivery_id)]

\* A complete_delivery call that passes every check of lines 124-131 and
\* the treasury constraint.
Eligible(a) ==
    /\ config[a.cfg].is_active /\ ~config[a.cfg].is_paused
    /\ a.treasury = config[a.cfg].treasury
    /\ DeliveryOf(a).status = InProgress
    /\ DeliveryOf(a).assigned_vehicle = SomePubkey(a.veh)

NoEffect(r) == Execute(World, r) = World

Did(op, err) == last = [op |-> op, err |-> err]

----------------------------------------------------------------------------
(* C1.  A delivery's status only ever moves Pending -> InProgress, by a    *)
(* successful accept_delivery, and InProgress -> Completed, by a           *)
(* successful complete_delivery; a delivery starts Pending, is never       *)
(* removed, never moves backwards, never skips and never is Cancelled.     *)
C1_StatusStep ==
    /\ \A d \in DOMAIN delivery :
          /\ d \in DOMAIN delivery'
          /\ LET s == delivery[d].status
                 t == delivery'[d].status
             IN  \/ s = t
                 \/ /\ s = Pending
                    /\ t = InProgress
                    /\ last' = [op |-> "accept_delivery", err |-> "Ok"]
                 \/ /\ s = InProgress
                    /\ t = Completed
                    /\ last' = [op |-> "complete_delivery", err |-> "Ok"]
    /\ \A d \in DOMAIN delivery' \ DOMAIN delivery : delivery'[d].status = Pending

C1_StatusMonotonic == [][C1_StatusStep]_vars

C1_Witness ==
    /\ Did("complete_delivery", "Ok")
    /\ \E d \in DOMAIN delivery : delivery[d].status = Completed

(* C2.  Every split sums to the payment, fee + vehicle_payment =           *)
(* payment_amount; and the escrow of a delivery holds payment_amount       *)
(* while the delivery is not Completed and 0 once it is.                   *)
C2_EscrowBalance ==
    /\ \A d \in DOMAIN delivery, c \in DOMAIN config :
          LET split == FeeSplit(delivery[d].payment_amount, config[c].fee_bps)
          IN  split.err = "Ok" =>
                 WideAdd(split.fee, split.vehicle_payment) = delivery[d].payment_amount
    /\ \A c \in Customers, i \in DeliveryIds :
          DeliveryPda(c, i) \in DOMAIN delivery =>
              lamports[EscrowPda(c, i)] =
                  IF delivery[DeliveryPda(c, i)].status = Completed
                  THEN as_u64(0)
                  ELSE delivery[DeliveryPda(c, i)].payment_amount

(* C3.  accept_delivery on a busy vehicle returns VehicleNotAvailable and  *)
(* changes nothing; no step binds a busy vehicle to a delivery; and a      *)
(* vehicle stops being busy only by a successful complete_delivery.        *)
C3_BusyRejected ==
    \A a \in AcceptCalls :
        vehicle[a.veh].is_busy =>
            /\ AcceptResult(a).err = "VehicleNotAvailable"
            /\ NoEffect(AcceptResult(a))

C3_BusyStep ==
    \A v \in DOMAIN vehicle :
        vehicle[v].is_busy =>
            /\ \A d \in DOMAIN delivery' :
                  delivery'[d].assigned_vehicle = SomePubkey(v) =>
                      /\ d \in DOMAIN delivery
                      /\ delivery[d].assigned_vehicle = SomePubkey(v)
            /\ ~vehicle'[v].is_busy =>
                  last' = [op |-> "complete_delivery", err |-> "Ok"]

C3_BusyVehicleNotAccepted == [](C3_BusyRejected) /\ [][C3_BusyStep]_vars

C3_Witness ==
    /\ Did("accept_delivery", "VehicleNotAvailable")
    /\ \E v \in DOMAIN vehicle : vehicle[v].is_busy
    /\ \E d \in DOMAIN delivery : delivery[d].status = Pending

(* C4.  accept_delivery succeeds only when signed by the operator the      *)
(* vehicle was registered with.                                            *)
C4_OnlyBoundOperatorAccepts ==
    \A a \in AcceptCalls :
        AcceptResult(a).err = "Ok" => a.operator = vehicle[a.veh].operator

(* C5.  complete_delivery by a vehicle other than the assigned one         *)
(* returns Unauthorized in every state of the delivery, and changes        *)
(* nothing.                                                                *)
C5_AlwaysUnauthorized ==
    \A a \in CompleteCalls :
        DeliveryOf(a).assigned_vehicle # SomePubkey(a.veh) =>
            /\ CompleteResult(a).err = "Unauthorized"
            /\ NoEffect(CompleteResult(a))

(* C5 as amended.  complete_delivery by a vehicle other than the assigned  *)
(* one fails and changes nothing; it returns InvalidTreasury if the        *)
(* treasury passed is not config.treasury, else InvalidDeliveryStatus if   *)
(* the delivery is not InProgress, else Unauthorized.                      *)
C5_WrongVehicleFails ==
    \A a \in CompleteCalls :
        DeliveryOf(a).assigned_vehicle # SomePubkey(a.veh) =>
            /\ NoEffect(CompleteResult(a))
            /\ CompleteResult(a).err =
                  IF a.treasury # config[a.cfg].treasury THEN "InvalidTreasury"
                  ELSE IF DeliveryOf(a).status # InProgress
                       THEN "InvalidDeliveryStatus"
                  ELSE "Unauthorized"

C5_Witness ==
    /\ Did("complete_delivery", "Unauthorized")
    /\ \E a \in CompleteCalls :
          /\ DeliveryOf(a).status = InProgress
          /\ DeliveryOf(a).assigned_vehicle # SomePubkey(a.veh)

(* C6.  complete_delivery with a treasury other than config.treasury       *)
(* returns InvalidTreasury and changes nothing, whatever the delivery's    *)
(* status and the vehicle passed.                                          *)
C6_InvalidTreasury ==
    \A a \in CompleteCalls :
        a.treasury # config[a.cfg].treasury =>
            /\ CompleteResult(a).err = "InvalidTreasury"
            /\ NoEffect(CompleteResult(a))

C6_Witness ==
    /\ Did("complete_delivery", "InvalidTreasury")
    /\ \E a \in CompleteCalls :
          /\ DeliveryOf(a).status = InProgress
          /\ DeliveryOf(a).assigned_vehicle = SomePubkey(a.veh)
          /\ a.treasury # config[a.cfg].treasury

(* C7.  accept_delivery on a delivery that is not Pending, and             *)
(* complete_delivery on one that is not InProgress, return                 *)
(* InvalidDeliveryStatus whatever the other arguments, and change nothing. *)
C7_AlwaysInvalidStatus ==
    /\ \A a \in AcceptCalls :
          delivery[a.dlv].status # Pending =>
              /\ AcceptResult(a).err = "InvalidDeliveryStatus"
              /\ NoEffect(AcceptResult(a))
    /\ \A a \in CompleteCalls :
          DeliveryOf(a).status # InProgress =>
              /\ CompleteResult(a).err = "InvalidDeliveryStatus"
              /\ NoEffect(CompleteResult(a))

(* C7 as amended.  Both calls fail and change nothing.  accept_delivery    *)
(* returns VehicleNotAvailable if the vehicle is inactive or busy, else    *)
(* InvalidDeliveryStatus; complete_delivery returns InvalidTreasury if     *)
(* the treasury passed is not config.treasury, else InvalidDeliveryStatus. *)
C7_WrongStatusFails ==
    /\ \A a \in AcceptCalls :
          delivery[a.dlv].status # Pending =>
              /\ NoEffect(AcceptResult(a))
              /\ AcceptResult(a).err =
                    IF ~(vehicle[a.veh].is_active /\ ~vehicle[a.veh].is_busy)
                    THEN "VehicleNotAvailable"
                    ELSE "InvalidDeliveryStatus"
    /\ \A a \in CompleteCalls :
          DeliveryOf(a).status # InProgress =>
              /\ NoEffect(CompleteResult(a))
              /\ CompleteResult(a).err =
                    IF a.treasury # config[a.cfg].treasury THEN "InvalidTreasury"
                    ELSE "InvalidDeliveryStatus"

C7_Witness ==
    /\ Did("complete_delivery", "InvalidDeliveryStatus")
    /\ \E a \in AcceptCalls :
          /\ delivery[a.dlv].status = Completed
          /\ AcceptResult(a).err = "InvalidDeliveryStatus"
    /\ \E a \in AcceptCalls :
          /\ delivery[a.dlv].status = InProgress
          /\ AcceptResult(a).err = "VehicleNotAvailable"

(* C8.  At most one Config exists, and once one exists every               *)
(* initialize_config, by any caller, returns AlreadyInitialized.           *)
C8_SingleConfig ==
    /\ Cardinality(DOMAIN config) <= 1
    /\ Did("initialize_config", "Ok") => Cardinality(DOMAIN config) = 1

(* C9.  A successful complete_delivery under fee_bps <= 10000 credits the  *)
(* treasury floor(payment_amount * fee_bps / 10000) and the operator       *)
(* account payment_amount minus that; 250 bps of 1_000_000_000 are         *)
(* 25_000_000, leaving 975_000_000.  (Credits are read off the balances,   *)
(* so the two recipients and the escrow are taken to be three accounts.)   *)
IsFloorOfFee(fee, payment_amount, fee_bps) ==
    LET product == WideMul(payment_amount, as_u64(fee_bps))
    IN  /\ Leq(WideMul(fee, as_u64(10000)), product)
        /\ Less(product, WideMul(WideAdd(fee, as_u64(1)), as_u64(10000)))

C9_FeeIsFloor ==
    \A a \in CompleteCalls :
        LET r == CompleteResult(a)
            escrow == EscrowPda(a.customer, a.delivery_id)
            fee_bps == config[a.cfg].fee_bps
            payment_amount == DeliveryOf(a).payment_amount
        IN  ( /\ r.err = "Ok"
              /\ fee_bps <= 10000
              /\ a.vehicle_operator \notin {a.treasury, escrow}
              /\ a.treasury # escrow ) =>
            LET fee == WideSub(r.w.lamports[a.treasury], lamports[a.treasury])
                vehicle_payment == WideSub(r.w.lamports[a.vehicle_operator],
                                           lamports[a.vehicle_operator])
            IN  /\ IsFloorOfFee(fee, payment_amount, fee_bps)
                /\ vehicle_payment = WideSub(payment_amount, fee)
                /\ (payment_amount = as_u64(1000000000) /\ fee_bps = 250) =>
                      /\ fee = as_u64(25000000)
                      /\ vehicle_payment = as_u64(975000000)

C9_Witness ==
    /\ Did("complete_delivery", "Ok")
    /\ \E d \in DOMAIN delivery, c \in DOMAIN config :
          /\ delivery[d].status = Completed
          /\ delivery[d].payment_amount = as_u64(1000000000)
          /\ config[c].fee_bps = 250
          /\ lamports[config[c].treasury] = as_u64(25000000)
          /\ lamports["oscar"] = as_u64(975000000)

(* C10.  For fee_bps <= 10000 and any u64 payment_amount,                  *)
(* complete_delivery on an InProgress delivery, by its assigned vehicle    *)
(* and with config.treasury, does not return MathOverflow: a               *)
(* complete_delivery that returned MathOverflow ran under a fee rate       *)
(* above 10000.  (No vehicle's counter is near its maximum here, and the   *)
(* subtraction cannot underflow at or below 10000.)                        *)
C10_NoMultiplyOverflow ==
    Did("complete_delivery", "MathOverflow") =>
        \A c \in DOMAIN config : config[c].fee_bps > 10000

(* C11.  create_delivery_order for a (customer, delivery_id) that already  *)
(* has a Delivery fails and changes nothing, whatever the status of that   *)
(* Delivery; every Delivery sits at the address of its own (customer,      *)
(* delivery_id), paired with one escrow, so no pair ever has two; and no   *)
(* create_delivery_order step touches a Delivery or escrow that existed    *)
(* before it.                                                              *)
C11_ReplayRejected ==
    /\ \A a \in CreateCalls :
          DeliveryPda(a.customer, a.delivery_id) \in DOMAIN delivery =>
              /\ CreateResult(a).err # "Ok"
              /\ NoEffect(CreateResult(a))
    /\ \A d \in DOMAIN delivery :
          /\ d = DeliveryPda(delivery[d].customer, delivery[d].delivery_id)
          /\ EscrowPda(delivery[d].customer, delivery[d].delivery_id)
                \in DOMAIN lamports
    /\ \A c \in Customers, i \in DeliveryIds :
          EscrowPda(c, i) \in DOMAIN lamports =>
              DeliveryPda(c, i) \in DOMAIN delivery

C11_ReplayStep ==
    last'.op = "create_delivery_order" =>
        \A d \in DOMAIN delivery :
            LET escrow == EscrowPda(delivery[d].customer, delivery[d].delivery_id)
            IN  /\ d \in DOMAIN delivery'
                /\ delivery'[d] = delivery[d]
                /\ lamports'[escrow] = lamports[escrow]
                /\ lamports'[delivery[d].customer] = lamports[delivery[d].customer]

C11_NoSecondDelivery == [](C11_ReplayRejected) /\ [][C11_ReplayStep]_vars

C11_Witness ==
    /\ Did("create_delivery_order", "AlreadyInitialized")
    /\ \E a \in CreateCalls :
          /\ DeliveryPda(a.customer, a.delivery_id) \in DOMAIN delivery
          /\ DeliveryOf(a).status = Completed
          /\ Leq(a.payment_amount, lamports[a.customer])
          /\ Less(as_u64(0), a.payment_amount)

(* C12.  For a (customer, delivery_id) that has no Delivery yet:           *)
(* create_delivery_order with a pickup or delivery location longer than    *)
(* 64 bytes returns InvalidParameter, and with payment_amount = 0 (the     *)
(* locations being within 64 bytes, which are checked first) returns       *)
(* InvalidAmount; either way no Delivery and no escrow is created and      *)
(* nobody is debited.                                                      *)
C12_InvalidInputs ==
    \A a \in CreateCalls :
        DeliveryPda(a.customer, a.delivery_id) \notin DOMAIN delivery =>
            /\ (Len(a.pickup_location) > 64 \/ Len(a.delivery_location) > 64) =>
                  /\ CreateResult(a).err = "InvalidParameter"
                  /\ NoEffect(CreateResult(a))
            /\ ( /\ a.payment_amount = as_u64(0)
                 /\ Len(a.pickup_location) <= 64
                 /\ Len(a.delivery_location) <= 64 ) =>
                  /\ CreateResult(a).err = "InvalidAmount"
                  /\ NoEffect(CreateResult(a))

C12_Witness ==
    /\ Did("create_delivery_order", "InvalidAmount")
    /\ \E c \in Customers, i \in DeliveryIds :
          /\ DeliveryPda(c, i) \notin DOMAIN delivery
          /\ EscrowPda(c, i) \notin DOMAIN lamports
          /\ lamports[c] = InitialLamports(c)
    /\ \E a \in CreateCalls :
          /\ Len(a.pickup_location) > 64
          /\ CreateResult(a).err = "InvalidParameter"

(* C13.  In every state and for every delivery, assigned_vehicle is set    *)
(* if and only if the status is InProgress or Completed, and is None       *)
(* exactly while the delivery is Pending; once set it never changes.       *)
C13_AssignedIffAccepted ==
    \A d \in DOMAIN delivery :
        /\ delivery[d].assigned_vehicle.some <=>
              delivery[d].status \in {InProgress, Completed}
        /\ ~delivery[d].assigned_vehicle.some <=> delivery[d].status = Pending
        /\ delivery[d].assigned_vehicle.some =>
              delivery[d].assigned_vehicle.val \in DOMAIN vehicle

C13_AssignedStep ==
    \A d \in DOMAIN delivery :
        delivery[d].assigned_vehicle.some =>
            /\ d \in DOMAIN delivery'
            /\ delivery'[d].assigned_vehicle = delivery[d].assigned_vehicle

C13_AssignedVehicle == [](C13_AssignedIffAccepted) /\ [][C13_AssignedStep]_vars

C13_Witness ==
    /\ Did("complete_delivery", "Ok")
    /\ \E d \in DOMAIN delivery :
          /\ delivery[d].status = Completed
          /\ delivery[d].assigned_vehicle.some
    /\ \E d \in DOMAIN delivery :
          /\ delivery[d].status = Pending
          /\ ~delivery[d].assigned_vehicle.some
    /\ \E v \in DOMAIN vehicle : ~vehicle[v].is_busy

(* C14.  A complete_delivery that returns MathOverflow because the         *)
(* vehicle's total_deliveries is at its maximum leaves no partial effect:  *)
(* the balances of the escrow, the operator account and the treasury, the  *)
(* delivery's status and completed_at and the vehicle's is_busy are as     *)
(* before the call.                                                        *)
CounterOverflows(a) ==
    /\ vehicle[a.veh].total_deliveries = U64_MAX
    /\ FeeSplit(DeliveryOf(a).payment_amount, config[a.cfg].fee_bps).err = "Ok"
    /\ CompleteResult(a).err = "MathOverflow"

C14_NothingChanges ==
    \A a \in CompleteCalls :
        CounterOverflows(a) =>
            LET w2 == Execute(World, CompleteResult(a))
                dlv == DeliveryPda(a.customer, a.delivery_id)
                escrow == EscrowPda(a.customer, a.delivery_id)
            IN  /\ w2.lamports[escrow] = lamports[escrow]
                /\ w2.lamports[a.vehicle_operator] = lamports[a.vehicle_operator]
                /\ w2.lamports[a.treasury] = lamports[a.treasury]
                /\ w2.delivery[dlv].status = delivery[dlv].status
                /\ w2.delivery[dlv].completed_at = delivery[dlv].completed_at
                /\ w2.vehicle[a.veh].is_busy = vehicle[a.veh].is_busy
                /\ w2 = World

C14_OverflowStep ==
    last' = [op |-> "complete_delivery", err |-> "MathOverflow"] =>
        UNCHANGED <<config, vehicle, delivery, lamports>>

C15_AlwaysAborts ==
    Did("complete_delivery", "Ok") =>
        \A c \in DOMAIN config : config[c].fee_bps <= 10000

(* C15 as amended.  Under a fee rate above 10000, that call returns        *)
(* MathOverflow and changes nothing exactly when                           *)
(* payment_amount * (fee_bps - 10000) >= 10000, that is, when the floored  *)
(* fee exceeds payment_amount or the u64 product overflows; for a smaller  *)
(* payment_amount the floored fee equals payment_amount and the call       *)
(* succeeds, the treasury receiving the whole escrow and the operator      *)
(* account nothing.                                                        *)
C15_AbortsUnlessFloorAbsorbs ==
    \A a \in CompleteCalls :
        LET r == CompleteResult(a)
            fee_bps == config[a.cfg].fee_bps
            payment_amount == DeliveryOf(a).payment_amount
            escrow == EscrowPda(a.customer, a.delivery_id)
        IN  ( /\ Eligible(a)
              /\ fee_bps > 10000
              /\ Less(as_u64(0), payment_amount)
              /\ Less(vehicle[a.veh].total_deliveries, U64_MAX) ) =>
            IF Leq(as_u64(10000), WideMul(payment_amount, as_u64(fee_bps - 10000)))
            THEN /\ r.err = "MathOverflow"
                 /\ NoEffect(r)
            ELSE /\ r.err = "Ok"
                 /\ r.w.lamports[a.treasury] =
                       WideAdd(lamports[a.treasury], payment_amount)
                 /\ r.w.lamports[escrow] = as_u64(0)
                 /\ a.vehicle_operator \notin {a.treasury, escrow} =>
                       r.w.lamports[a.vehicle_operator] = lamports[a.vehicle_operator]

C15_Witness ==
    /\ Did("complete_delivery", "MathOverflow")
    /\ \E d \in DOMAIN delivery, c \in DOMAIN config :
          /\ config[c].fee_bps = 10001
          /\ delivery[d].payment_amount = as_u64(10000)
          /\ delivery[d].status = InProgress
          /\ lamports[config[c].treasury] = as_u64(0)

(* C16.  In every state, every stored Config has fee_bps <= 10000.         *)
C16_FeeBpsBounded ==
    \A c \in DOMAIN config : config[c].fee_bps <= 10000

(* C17.  The escrow is paid out to the operator recorded in the vehicle    *)
(* and to config.treasury only: a wallet that is neither a customer, nor   *)
(* the operator of a registered vehicle, nor the treasury of a Config      *)
(* never holds anything.                                                   *)
C17_OnlyOperatorAndTreasuryPaid ==
    \A a \in Wallets \ Customers :
        lamports[a] # as_u64(0) =>
            \/ \E v \in DOMAIN vehicle : vehicle[v].operator = a
            \/ \E c \in DOMAIN config : config[c].treasury = a

(* C18.  Funds are conserved and paid out at most once: the sum of all     *)
(* balances (customers, escrows, operators, treasuries) never changes;     *)
(* and the escrow of a delivery goes down only in the one step that        *)
(* completes that delivery (InProgress -> Completed, which never recurs),  *)
(* by no more than the delivery's payment_amount, all of which is added    *)
(* to other accounts.                                                      *)
RECURSIVE SumLamports(_, _)
SumLamports(lp, accounts) ==
    IF accounts = {} THEN as_u64(0)
    ELSE LET a == CHOOSE x \in accounts : TRUE
         IN  WideAdd(lp[a], SumLamports(lp, accounts \ {a}))

TotalLamports(lp) == SumLamports(lp, DOMAIN lp)

C18_Conserved ==
    TotalLamports(lamports) = TotalLamports([a \in Wallets |-> InitialLamports(a)])

C18_PayOutStep ==
    \A d \in DOMAIN delivery :
        LET escrow == EscrowPda(delivery[d].customer, delivery[d].delivery_id)
        IN  Less(lamports'[escrow], lamports[escrow]) =>
                /\ last' = [op |-> "complete_delivery", err |-> "Ok"]
                /\ delivery[d].status = InProgress
                /\ delivery'[d].status = Completed
                /\ Leq(WideSub(lamports[escrow], lamports'[escrow]),
                       delivery[d].payment_amount)
                /\ \A e \in DOMAIN lamports \ {escrow} :
                      Leq(lamports[e], lamports'[e])

C18_CompletedStep ==
    \A d \in DOMAIN delivery :
        delivery[d].status = Completed => delivery'[d].status = Completed

C18_FundsConserved ==
    [](C18_Conserved) /\ [][C18_PayOutStep /\ C18_CompletedStep]_vars

C18_Witness ==
    /\ Did("complete_delivery", "InvalidDeliveryStatus")
    /\ \E d \in DOMAIN delivery :
          /\ delivery[d].status = Completed
          /\ lamports[EscrowPda(delivery[d].customer, delivery[d].delivery_id)]
                = as_u64(0)
          /\ lamports["oscar"] = as_u64(975000000)
          /\ lamports["treasury"] = as_u64(25000000)
          /\ lamports[delivery[d].customer] = as_u64(1000000000)

(* C19.  In every state, a vehicle is busy if and only if exactly one      *)
(* InProgress delivery has it as assigned_vehicle; a free vehicle has      *)
(* none and no vehicle ever has two; and a vehicle's total_deliveries is   *)
(* the number of Completed deliveries assigned to it.                      *)
InProgressOf(v) ==
    {d \in DOMAIN delivery :
        /\ delivery[d].status = InProgress
        /\ delivery[d].assigned_vehicle = SomePubkey(v)}

CompletedBy(v) ==
    {d \in DOMAIN delivery :
        /\ delivery[d].status = Completed
        /\ delivery[d].assigned_vehicle = SomePubkey(v)}

C19_BusyIffOneInProgress ==
    \A v \in DOMAIN vehicle :
        /\ vehicle[v].is_busy <=> Cardinality(InProgressOf(v)) = 1
        /\ ~vehicle[v].is_busy => InProgressOf(v) = {}
        /\ Cardinality(InProgressOf(v)) <= 1
        /\ vehicle[v].total_deliveries = as_u64(Cardinality(CompletedBy(v)))

C19_Witness ==
    /\ Did("accept_delivery", "Ok")
    /\ \E v \in DOMAIN vehicle :
          /\ vehicle[v].is_busy
          /\ Cardinality(InProgressOf(v)) = 1
          /\ Cardinality(CompletedBy(v)) = 1
          /\ vehicle[v].total_deliveries = as_u64(1)
    /\ \E v \in DOMAIN vehicle : ~vehicle[v].is_busy

(* C20.  Every delivery that is InProgress gets Completed, with its        *)
(* vehicle free again, once complete_delivery by the assigned vehicle      *)
(* with the config's treasury is scheduled fairly, whatever fee rate       *)
(* initialize_config and whatever amount create_delivery_order accepted.   *)
(* Nothing but that call moves a delivery out of InProgress and the        *)
(* system may otherwise stay where it is, so the delivery is completed     *)
(* only if the call can succeed: in every state, each InProgress delivery  *)
(* has such a call that returns Ok, leaving it Completed and its vehicle   *)
(* free.                                                                   *)
C20_CompletionEnabled ==
    \A a \in CompleteCalls :
        (Eligible(a) /\ a.vehicle_operator = vehicle[a.veh].operator) =>
            \E b \in CompleteCalls :
                LET r == CompleteResult(b)
                    dlv == DeliveryPda(a.customer, a.delivery_id)
                IN  /\ b.customer = a.customer
                    /\ b.delivery_id = a.delivery_id
                    /\ Eligible(b)
                    /\ r.err = "Ok"
                    /\ r.w.delivery[dlv].status = Completed
                    /\ ~r.w.vehicle[b.veh].is_busy

====
